---------------------------- MODULE Spec2Model ----------------------------
(***************************************************************************)
(* Model of the audio-capture engine (src/win/capture.rs, the library) and *)
(* of the earlier stand-alone capture program (src/main.rs, the binary).   *)
(* One caller thread drives an AudioCapture instance through init, format, *)
(* start, stop, read_samples and drop; the native layer (COM, WASAPI) is   *)
(* the environment: each native call returns an HRESULT chosen by the      *)
(* environment, and the audio device queues packets while capture runs.    *)
(***************************************************************************)
EXTENDS Integers, Sequences, FiniteSets, TLC

(***************************************************************************)
(* Bounds of the model.                                                    *)
(***************************************************************************)
\* instances the library caller creates one after the other
MaxInstances == 2
\* packets the device queues over the life of one instance
MaxPackets == 2
\* polls of the binary's capture loop (stands for `for i in 0..200`)
MaxPolls == 2
\* packets the endpoint buffer holds at once, where the device never stops
MaxQueue == 2

(***************************************************************************)
(* Unbounded naturals as little-endian sequences of decimal digits (TLC's  *)
(* integers are 32 bits wide; the code computes in u64 and i64).  Zero is  *)
(* the empty sequence and no value has a leading zero.                     *)
(***************************************************************************)
RECURSIVE Rev(_)
Rev(s) == IF s = <<>> THEN <<>> ELSE Append(Rev(Tail(s)), Head(s))

RECURSIVE Norm(_)
Norm(a) == IF a = <<>> THEN <<>>
           ELSE IF a[Len(a)] = 0 THEN Norm(SubSeq(a, 1, Len(a) - 1))
           ELSE a

\* the natural written as the decimal digits s, most significant first
Dec(s) == Norm(Rev(s))

RECURSIVE NatD(_)
NatD(n) == IF n = 0 THEN <<>> ELSE <<n % 10>> \o NatD(n \div 10)

DigitAt(a, i) == IF i <= Len(a) THEN a[i] ELSE 0

RECURSIVE AddFrom(_, _, _, _)
AddFrom(a, b, i, carry) ==
    IF i > Len(a) /\ i > Len(b)
    THEN IF carry = 0 THEN <<>> ELSE <<carry>>
    ELSE LET s == DigitAt(a, i) + DigitAt(b, i) + carry
         IN  <<s % 10>> \o AddFrom(a, b, i + 1, s \div 10)

AddD(a, b) == Norm(AddFrom(a, b, 1, 0))

RECURSIVE LessFrom(_, _, _)
LessFrom(a, b, i) ==
    IF i = 0 THEN FALSE
    ELSE IF a[i] # b[i] THEN a[i] < b[i]
    ELSE LessFrom(a, b, i - 1)

LtD(a, b) == IF Len(a) # Len(b) THEN Len(a) < Len(b) ELSE LessFrom(a, b, Len(a))
LeD(a, b) == a = b \/ LtD(a, b)

RECURSIVE SubFrom(_, _, _, _)
SubFrom(a, b, i, borrow) ==
    IF i > Len(a) THEN <<>>
    ELSE LET d == a[i] - DigitAt(b, i) - borrow
         IN  IF d < 0 THEN <<d + 10>> \o SubFrom(a, b, i + 1, 1)
             ELSE <<d>> \o SubFrom(a, b, i + 1, 0)

\* a - b for b <= a
SubD(a, b) == Norm(SubFrom(a, b, 1, 0))

\* a * 10^k
ShiftD(a, k) == IF a = <<>> THEN <<>> ELSE [i \in 1..k |-> 0] \o a

\* a mod m, for a < m * 10^(k+1)
RECURSIVE ModD(_, _, _)
ModD(a, m, k) ==
    IF k < 0 THEN a
    ELSE IF LeD(ShiftD(m, k), a) THEN ModD(SubD(a, ShiftD(m, k)), m, k)
    ELSE ModD(a, m, k - 1)

TwoPow63 == Dec(<<9,2,2,3,3,7,2,0,3,6,8,5,4,7,7,5,8,0,8>>)
TwoPow64 == Dec(<<1,8,4,4,6,7,4,4,0,7,3,7,0,9,5,5,1,6,1,6>>)

\* signed integers: sign and magnitude, zero is never negative
Signed(neg, mag) == [neg |-> neg /\ mag # <<>>, mag |-> mag]

\* whether the signed value v is an i64
InI64(v) == IF v.neg THEN LeD(v.mag, TwoPow63) ELSE LtD(v.mag, TwoPow63)

AddS(v, w) ==
    IF v.neg = w.neg THEN Signed(v.neg, AddD(v.mag, w.mag))
    ELSE IF LeD(w.mag, v.mag) THEN Signed(v.neg, SubD(v.mag, w.mag))
    ELSE Signed(w.neg, SubD(w.mag, v.mag))

\* the i64 congruent to the signed value v modulo 2^64 (two's complement)
WrapI64(v) ==
    LET m == ModD(v.mag, TwoPow64, 12)
        u == IF v.neg /\ m # <<>> THEN SubD(TwoPow64, m) ELSE m
    IN  IF LtD(u, TwoPow63) THEN Signed(FALSE, u)
        ELSE Signed(TRUE, SubD(TwoPow64, u))


(***************************************************************************)
(* HRESULT values.  S_OK is the one success code winapi_result accepts;    *)
(* the others are values the native layer returns: S_FALSE (CoInitialize   *)
(* on a thread that is already initialized), RPC_E_CHANGED_MODE            *)
(* (0x80010106, initialized in another mode) and E_FAIL (0x80004005).      *)
(***************************************************************************)
S_OK == 0
S_FALSE == 1
RPC_E_CHANGED_MODE == -2147417850
E_FAIL == -2147467259

\* what CoInitialize may return, and what any other native call may return
CoInitResults == {S_OK, S_FALSE, RPC_E_CHANGED_MODE}
CallResults == {S_OK, E_FAIL}

\* results of the operations: Result<_, WinError>, ReadSamplesError, a panic
Ok == [tag |-> "Ok", code |-> 0]
Err(code) == [tag |-> "WinError", code |-> code]
CallbackErr(e) == [tag |-> "E", code |-> e]
Panic == [tag |-> "Panic", code |-> 0]

winapi_result_unchecked(hresult) == Ok

winapi_result(hresult) == IF hresult = S_OK THEN Ok ELSE Err(hresult)

(***************************************************************************)
(* Duration arithmetic of init.  A Duration is [secs, nanos]: secs a u64   *)
(* (decimal digits), nanos < 10^9.                                         *)
(***************************************************************************)
Duration(secs, nanos) == [secs |-> secs, nanos |-> nanos]
from_millis(ms) == Duration(NatD(ms \div 1000), (ms % 1000) * 1000000)

None == [tag |-> "None"]
Some(v) == [tag |-> "Some", v |-> v]

\* `x as i64` of a u64: the same 64 bits read as two's complement
as_i64(u) == IF LtD(u, TwoPow63) THEN Signed(FALSE, u)
             ELSE Signed(TRUE, SubD(TwoPow64, u))

\* i64::checked_mul(v, 100_000_000_000)
checked_mul_1e11(v) ==
    LET p == Signed(v.neg, ShiftD(v.mag, 11))
    IN  IF InI64(p) THEN Some(p) ELSE None

\* i64::checked_add
checked_add(v, w) ==
    LET s == AddS(v, w)
    IN  IF InI64(s) THEN Some(s) ELSE None

\* `buffer_duration.subsec_nanos() as i64 * 100` (below 10^11: never overflows)
subsec_100(d) == Signed(FALSE, ShiftD(NatD(d.nanos), 2))

\* capture.rs: the checked computation; None is the expect() panic
dur_lib(d) ==
    LET m == checked_mul_1e11(as_i64(d.secs))
    IN  IF m.tag = "None" THEN {None} ELSE {checked_add(m.v, subsec_100(d))}

\* main.rs: the unchecked computation.  On overflow a build with overflow
\* checks panics and a build without them wraps.
dur_bin(d) ==
    LET a == as_i64(d.secs)
        p == Signed(a.neg, ShiftD(a.mag, 11))
        s == AddS(p, subsec_100(d))
    IN  IF InI64(p) /\ InI64(s) THEN {Some(s)} ELSE {None, Some(WrapI64(s))}

\* durations the library's caller passes
SecsInputs == { Dec(<<>>), Dec(<<1>>),
                Dec(<<9,2,2,3,3,7,2,0>>), Dec(<<9,2,2,3,3,7,2,1>>),
                TwoPow63, SubD(TwoPow64, Dec(<<1>>)) }
NanosInputs == {0, 100000000, 999999999}
DurInputs == { Duration(s, n) : s \in SecsInputs, n \in NanosInputs }

(***************************************************************************)
(* The mix-format descriptor (WAVEFORMATEX / WAVEFORMATEXTENSIBLE).        *)
(***************************************************************************)
WAVE_FORMAT_PCM == 1
WAVE_FORMAT_IEEE_FLOAT == 3
WAVE_FORMAT_EXTENSIBLE == 65534
\* size_of::<WAVEFORMATEXTENSIBLE>() - size_of::<WAVEFORMATEX>() = 40 - 18
ExtensionSize == 22

WaveFormat(ptr, tag, bits, cb, sub, ch, rate) ==
    [ptr |-> ptr, wFormatTag |-> tag, wBitsPerSample |-> bits, cbSize |-> cb,
     SubFormat |-> sub, nChannels |-> ch, nSamplesPerSec |-> rate]

NullFormat == WaveFormat(0, 0, 0, 0, "none", 0, 0)

UnknownFormat == [tag |-> "UnknownFormat"]
Format(channels, sample_rate, sample_format) ==
    [tag |-> "Ok", channels |-> channels, sample_rate |-> sample_rate,
     sample_format |-> sample_format]
NoFormat == [tag |-> "NotCalled"]

\* the inner match on (sub-format GUID, bits per sample)
sub_format_match(guid, sample_bitsize) ==
    IF guid = "DATAFORMAT_SUBTYPE_PCM" /\ sample_bitsize = 8 THEN "Int8"
    ELSE IF guid = "DATAFORMAT_SUBTYPE_PCM" /\ sample_bitsize = 16 THEN "Int16"
    ELSE IF guid = "DATAFORMAT_SUBTYPE_IEEE_FLOAT" /\ sample_bitsize = 32
         THEN "Float32"
    ELSE "None"

\* the guard of the extensible arm
extensible_guard_loose(struct_size) == struct_size >= ExtensionSize

extensible_guard(struct_size) == ExtensionSize = struct_size

\* the outer match on (format tag, bits per sample)
sample_format_match(wf) ==
    LET sample_bitsize == wf.wBitsPerSample
        struct_size == wf.cbSize
        format_tag == wf.wFormatTag
    IN  IF format_tag = WAVE_FORMAT_PCM /\ sample_bitsize = 8 THEN "Int8"
        ELSE IF format_tag = WAVE_FORMAT_PCM /\ sample_bitsize = 16 THEN "Int16"
        ELSE IF format_tag = WAVE_FORMAT_IEEE_FLOAT /\ sample_bitsize = 32
             THEN "Float32"
        ELSE IF format_tag = WAVE_FORMAT_EXTENSIBLE /\ extensible_guard(struct_size)
             THEN sub_format_match(wf.SubFormat, sample_bitsize)
        ELSE "None"

\* AudioCapture::format
format(wf) ==
    LET sample_format == sample_format_match(wf)
    IN  IF sample_format = "None" THEN UnknownFormat
        ELSE Format(wf.nChannels, wf.nSamplesPerSec, sample_format)

(***************************************************************************)
(* Packets of the device and the per-packet Info.                          *)
(***************************************************************************)
AUDCLNT_BUFFERFLAGS_DATA_DISCONTINUITY == 1
AUDCLNT_BUFFERFLAGS_SILENT == 2
AUDCLNT_BUFFERFLAGS_TIMESTAMP_ERROR == 4

flag_set_compare(flags, bit) == flags >= bit

\* (flags & bit) != 0, for bit a power of two
flag_set(flags, bit) == (flags \div bit) % 2 = 1

Info(flags) ==
    [is_silent |-> flag_set(flags, AUDCLNT_BUFFERFLAGS_SILENT),
     data_discontinuity |-> flag_set(flags, AUDCLNT_BUFFERFLAGS_DATA_DISCONTINUITY),
     timestamp_error |-> flag_set(flags, AUDCLNT_BUFFERFLAGS_TIMESTAMP_ERROR)]

\* frames per packet the device may queue, and the flag bits GetBuffer may report
PacketFrames == {1, 2}
PacketFlags == 0..7

\* mix formats the device offers in the life-cycle specification
MixFormats ==
    { WaveFormat(0, WAVE_FORMAT_EXTENSIBLE, 32, ExtensionSize,
                 "DATAFORMAT_SUBTYPE_IEEE_FLOAT", 2, 48000),
      WaveFormat(0, WAVE_FORMAT_PCM, 16, 0, "none", 2, 44100),
      WaveFormat(0, WAVE_FORMAT_PCM, 8, 0, "none", 2, 44100),
      WaveFormat(0, WAVE_FORMAT_EXTENSIBLE, 24, ExtensionSize,
                 "DATAFORMAT_SUBTYPE_PCM", 2, 48000) }

\* what GetBufferSize reports
BufferFrameSizes == {4800}

\* errors the caller's callback may return (library only)
CallbackErrors == {1}

(***************************************************************************)
(* State.                                                                  *)
(***************************************************************************)
VARIABLES
    build,              \* "lib": win/capture.rs driven by any caller; "bin": main.rs
    pc,                 \* position of the caller thread
    inst,               \* instances created so far
    buffer_duration,    \* argument of the last init
    dur,                \* init's local: the computed duration
    hnsBufferDuration,  \* the duration the last init passed to Initialize
    CoInitialize_hr,    \* what CoInitialize returned to this instance's init
    self,               \* the instance's fields (init's locals while it runs)
    acquired,           \* native resources handed out to this instance, by kind
    released,           \* native resources given back by this instance, by kind
    running,            \* the audio client is started
    queue,              \* packets queued by the device, oldest first
    produced,           \* packets the device has queued for this instance
    packet_length,      \* read_samples' locals
    buffer,
    buffer_size,
    flags,
    info,
    r,
    result,             \* result of the last operation
    trace,              \* native calls and callback invocations of the last operation
    fmt,                \* result of the last format()
    i                   \* main's loop counter

vars == <<build, pc, inst, buffer_duration, dur, hnsBufferDuration,
          CoInitialize_hr, self, acquired, released, running, queue, produced,
          packet_length, buffer, buffer_size, flags, info, r, result, trace,
          fmt, i>>

init_state == <<buffer_duration, dur, hnsBufferDuration, CoInitialize_hr>>
device == <<running, queue, produced>>
rs_locals == <<packet_length, buffer, buffer_size, flags, info, r>>

Kinds == {"com", "enumerator", "device", "client", "wave_format", "capture_client"}

NullSelf ==
    [buffer_frame_size |-> 0, wave_format |-> NullFormat, channels |-> 0,
     enumerator |-> 0, device |-> 0, client |-> 0, capture_client |-> 0,
     should_run_couninitalize_on_drop |-> FALSE]

NoInfo == Info(0)
Call(op, kind, hr) == [op |-> op, kind |-> kind, hr |-> hr, pkt |-> 0, n |-> 0]
Res(op, res) == [op |-> op, tag |-> res.tag, code |-> res.code]
NoResult == [op |-> "none", tag |-> "none", code |-> 0]

Init ==
    /\ build \in {"lib", "bin"}
    /\ pc = IF build = "lib" THEN "no_instance" ELSE "main"
    /\ inst = 0
    /\ buffer_duration = from_millis(0)
    /\ dur = None
    /\ hnsBufferDuration = None
    /\ CoInitialize_hr = None
    /\ self = NullSelf
    /\ acquired = [k \in Kinds |-> 0]
    /\ released = [k \in Kinds |-> 0]
    /\ running = FALSE
    /\ queue = <<>>
    /\ produced = 0
    /\ packet_length = 0
    /\ buffer = 0
    /\ buffer_size = 0
    /\ flags = 0
    /\ info = NoInfo
    /\ r = Ok
    /\ result = NoResult
    /\ trace = <<>>
    /\ fmt = NoFormat
    /\ i = 0

(***************************************************************************)
(* AudioCapture::init                                                      *)
(***************************************************************************)
\* where the caller goes when init ends with res
after_init(res) ==
    IF build = "lib"
    THEN IF res.tag = "Ok" THEN "idle"
         ELSE IF res.tag = "WinError" THEN "no_instance"
         ELSE "panicked"
    ELSE IF res.tag = "Ok" THEN "main_format" ELSE "panicked"

\* `?` returns the error; `.unwrap()` panics on it
question_mark(res) == res
unwrap(res) == IF res.tag = "Ok" THEN res ELSE Panic

init(d) ==
    /\ IF build = "lib"
       THEN pc = "no_instance" /\ inst < MaxInstances
       ELSE pc = "main" /\ d = from_millis(100)
    /\ pc' = "init_CoInitialize"
    /\ inst' = inst + 1
    /\ buffer_duration' = d
    /\ dur' = None
    /\ hnsBufferDuration' = None
    /\ CoInitialize_hr' = None
    /\ self' = NullSelf
    /\ acquired' = [k \in Kinds |-> 0]
    /\ released' = [k \in Kinds |-> 0]
    /\ running' = FALSE /\ queue' = <<>> /\ produced' = 0
    /\ packet_length' = 0 /\ buffer' = 0 /\ buffer_size' = 0 /\ flags' = 0
    /\ info' = NoInfo /\ r' = Ok
    /\ result' = NoResult
    /\ trace' = <<>>
    /\ fmt' = NoFormat
    /\ i' = 0
    /\ UNCHANGED build

\* capture.rs keeps going whatever CoInitialize returns and remembers whether
\* it returned S_OK; main.rs returns the error
init_CoInitialize ==
    /\ pc = "init_CoInitialize"
    /\ \E hr \in CoInitResults :
         LET res == winapi_result(hr)
         IN  /\ trace' = Append(trace, Call("CoInitialize", "com", hr))
             /\ CoInitialize_hr' = Some(hr)
             /\ acquired' = IF hr = S_OK
                            THEN [acquired EXCEPT !["com"] = @ + 1]
                            ELSE acquired
             /\ IF build = "lib"
                THEN /\ self' = [self EXCEPT
                                   !.should_run_couninitalize_on_drop = (res.tag = "Ok")]
                     /\ pc' = "init_CoCreateInstance"
                     /\ UNCHANGED result
                ELSE /\ self' = self
                     /\ IF res.tag = "Ok"
                        THEN pc' = "init_CoCreateInstance" /\ UNCHANGED result
                        ELSE /\ pc' = after_init(question_mark(res))
                             /\ result' = Res("init", question_mark(res))
    /\ UNCHANGED <<build, inst, buffer_duration, dur, hnsBufferDuration, released,
                   device, rs_locals, fmt, i>>

\* a step of init that acquires the handle `kind` with the native call `op`
\* and returns the error with `?` when the call fails
init_acquire(at, op, kind, next) ==
    /\ pc = at
    /\ \E hr \in CallResults :
         LET res == winapi_result(hr)
         IN  /\ trace' = Append(trace, Call(op, kind, hr))
             /\ IF res.tag = "Ok"
                THEN /\ acquired' = [acquired EXCEPT ![kind] = @ + 1]
                     /\ self' = [self EXCEPT ![kind] = acquired[kind] + 1]
                     /\ pc' = next
                     /\ UNCHANGED result
                ELSE /\ UNCHANGED acquired
                     /\ self' = NullSelf
                     /\ pc' = after_init(question_mark(res))
                     /\ result' = Res("init", question_mark(res))
    /\ UNCHANGED <<build, inst, init_state, released, device, rs_locals, fmt, i>>

init_CoCreateInstance ==
    init_acquire("init_CoCreateInstance", "CoCreateInstance", "enumerator",
                 "init_GetDefaultAudioEndpoint")

init_GetDefaultAudioEndpoint ==
    init_acquire("init_GetDefaultAudioEndpoint", "GetDefaultAudioEndpoint", "device",
                 "init_Activate")

init_Activate ==
    init_acquire("init_Activate", "Activate", "client",
                 IF build = "lib" THEN "init_GetMixFormat" ELSE "init_Activate_again")

\* main.rs activates the audio client a second time into the same variable
init_Activate_again ==
    /\ build = "bin"
    /\ init_acquire("init_Activate_again", "Activate", "client",
                    "init_GetMixFormat")

init_GetMixFormat ==
    /\ pc = "init_GetMixFormat"
    /\ \E hr \in CallResults, wf \in MixFormats :
         LET res == unwrap(winapi_result(hr))
         IN  /\ trace' = Append(trace, Call("GetMixFormat", "wave_format", hr))
             /\ IF res.tag = "Ok"
                THEN /\ acquired' = [acquired EXCEPT !["wave_format"] = @ + 1]
                     /\ self' = [self EXCEPT
                                   !.wave_format =
                                       [wf EXCEPT !.ptr = acquired["wave_format"] + 1],
                                   !.channels = wf.nChannels]
                     /\ pc' = "init_dur"
                     /\ UNCHANGED result
                ELSE /\ UNCHANGED acquired
                     /\ self' = NullSelf
                     /\ pc' = after_init(res)
                     /\ result' = Res("init", res)
    /\ UNCHANGED <<build, inst, init_state, released, device, rs_locals, fmt, i>>

\* the duration in 100ns units as each build computes it
dur_of(d) == IF build = "lib" THEN dur_lib(d) ELSE dur_bin(d)

init_dur ==
    /\ pc = "init_dur"
    /\ \E v \in dur_of(buffer_duration) :
         IF v.tag = "Some"
         THEN /\ dur' = v
              /\ pc' = "init_Initialize"
              /\ UNCHANGED <<self, result>>
         ELSE /\ dur' = None
              /\ self' = NullSelf
              /\ pc' = after_init(Panic)
              /\ result' = Res("init", Panic)
    /\ UNCHANGED <<build, inst, buffer_duration, hnsBufferDuration, CoInitialize_hr,
                   acquired, released, device, rs_locals, trace, fmt, i>>

\* a step of init that calls the audio client without acquiring a handle
init_Initialize ==
    /\ pc = "init_Initialize"
    /\ \E hr \in CallResults :
         LET res == unwrap(winapi_result(hr))
         IN  /\ trace' = Append(trace, Call("Initialize", "client", hr))
             /\ hnsBufferDuration' = dur
             /\ IF res.tag = "Ok"
                THEN pc' = "init_GetBufferSize" /\ UNCHANGED <<self, result>>
                ELSE /\ self' = NullSelf
                     /\ pc' = after_init(res)
                     /\ result' = Res("init", res)
    /\ UNCHANGED <<build, inst, buffer_duration, dur, CoInitialize_hr, acquired,
                   released, device, rs_locals, fmt, i>>

init_GetBufferSize ==
    /\ pc = "init_GetBufferSize"
    /\ \E hr \in CallResults, size \in BufferFrameSizes :
         LET res == unwrap(winapi_result(hr))
         IN  /\ trace' = Append(trace, Call("GetBufferSize", "client", hr))
             /\ IF res.tag = "Ok"
                THEN /\ self' = [self EXCEPT !.buffer_frame_size = size]
                     /\ pc' = "init_GetService"
                     /\ UNCHANGED result
                ELSE /\ self' = NullSelf
                     /\ pc' = after_init(res)
                     /\ result' = Res("init", res)
    /\ UNCHANGED <<build, inst, init_state, acquired, released, device, rs_locals,
                   fmt, i>>

\* the last step: on success init returns Ok(Self {..})
init_GetService ==
    /\ pc = "init_GetService"
    /\ \E hr \in CallResults :
         LET res == unwrap(winapi_result(hr))
         IN  /\ trace' = Append(trace, Call("GetService", "capture_client", hr))
             /\ IF res.tag = "Ok"
                THEN /\ acquired' = [acquired EXCEPT !["capture_client"] = @ + 1]
                     /\ self' = [self EXCEPT
                                   !.capture_client = acquired["capture_client"] + 1]
                ELSE /\ UNCHANGED acquired
                     /\ self' = NullSelf
             /\ pc' = after_init(res)
             /\ result' = Res("init", res)
    /\ UNCHANGED <<build, inst, init_state, released, device, rs_locals, fmt, i>>

(***************************************************************************)
(* format, start, stop                                                     *)
(***************************************************************************)
\* the record of the last init is dropped when the next operation begins
forget_init ==
    /\ buffer_duration' = from_millis(0)
    /\ dur' = None
    /\ hnsBufferDuration' = None
    /\ UNCHANGED CoInitialize_hr

\* the library's caller calls format() on a live instance
call_format ==
    /\ build = "lib" /\ pc = "idle"
    /\ fmt' = format(self.wave_format)
    /\ result' = Res("format", Ok)
    /\ trace' = <<>>
    /\ forget_init
    /\ UNCHANGED <<build, pc, inst, self, acquired, released, device, rs_locals, i>>

\* main: `audio_capture.format().unwrap()`
main_format ==
    /\ build = "bin" /\ pc = "main_format"
    /\ fmt' = format(self.wave_format)
    /\ result' = Res("format", Ok)
    /\ trace' = <<>>
    /\ pc' = IF fmt'.tag = "Ok" THEN "main_check" ELSE "main_panic"
    /\ forget_init
    /\ UNCHANGED <<build, inst, self, acquired, released, device, rs_locals, i>>

supported_any(sample_format) == TRUE

\* main: `matches!(format.sample_format, SampleFormat::Float32)`
supported(sample_format) == sample_format = "Float32"

\* main: `if !matches!(..) { todo!(..) }`
main_check ==
    /\ build = "bin" /\ pc = "main_check"
    /\ pc' = IF supported(fmt.sample_format) THEN "main_start" ELSE "main_panic"
    /\ UNCHANGED <<build, inst, init_state, self, acquired, released, device,
                   rs_locals, result, trace, fmt, i>>

\* AudioCapture::start: one native call.  main unwraps the result.
start ==
    /\ IF build = "lib" THEN pc = "idle" ELSE pc = "main_start"
    /\ \E hr \in CallResults :
         LET res == winapi_result(hr)
         IN  /\ trace' = <<Call("Start", "client", hr)>>
             /\ result' = Res("start", res)
             /\ running' = IF res.tag = "Ok" THEN TRUE ELSE running
             /\ pc' = IF build = "lib" THEN "idle"
                      ELSE IF res.tag = "Ok" THEN "main_loop" ELSE "main_panic"
    /\ forget_init
    /\ UNCHANGED <<build, inst, self, acquired, released, queue, produced,
                   rs_locals, fmt, i>>

\* AudioCapture::stop: one native call.  main calls it when its loop is over.
stop ==
    /\ IF build = "lib" THEN pc = "idle" ELSE pc = "main_loop" /\ i >= MaxPolls
    /\ \E hr \in CallResults :
         LET res == winapi_result(hr)
         IN  /\ trace' = <<Call("Stop", "client", hr)>>
             /\ result' = Res("stop", res)
             /\ running' = IF res.tag = "Ok" THEN FALSE ELSE running
             /\ pc' = IF build = "lib" THEN "idle"
                      ELSE IF res.tag = "Ok" THEN "main_end" ELSE "main_panic"
    /\ forget_init
    /\ UNCHANGED <<build, inst, self, acquired, released, queue, produced,
                   rs_locals, fmt, i>>

(***************************************************************************)
(* The device: while the client runs it queues packets.                    *)
(***************************************************************************)
DeviceProduce ==
    /\ running
    /\ pc \notin {"no_instance", "panicked", "done"}
    /\ produced < MaxPackets
    /\ \E f \in PacketFrames :
         queue' = Append(queue, [id |-> produced + 1, frames |-> f])
    /\ produced' = produced + 1
    /\ UNCHANGED <<build, pc, inst, init_state, self, acquired, released, running,
                   rs_locals, result, trace, fmt, i>>

(***************************************************************************)
(* AudioCapture::read_samples                                              *)
(***************************************************************************)
after_read_samples(res) ==
    IF build = "lib" THEN "idle"
    ELSE IF res.tag = "Ok" THEN "main_loop" ELSE "main_panic"

\* read_samples returns res: its locals go out of scope
rs_return(res) ==
    /\ result' = Res("read_samples", res)
    /\ pc' = after_read_samples(res)
    /\ packet_length' = 0 /\ buffer' = 0 /\ buffer_size' = 0 /\ flags' = 0
    /\ info' = NoInfo /\ r' = Ok

\* what the callback may return: the library's returns Result<(), E>, main's ()
callback_results ==
    IF build = "lib" THEN {Ok} \cup {CallbackErr(e) : e \in CallbackErrors} ELSE {Ok}

loop_cond_off_by_one(length) == length > 1

\* `while packet_length > 0`
loop_cond(length) == length > 0

after_callback_early_return(res) ==
    IF res.tag = "Ok" THEN "rs_ReleaseBuffer" ELSE "rs_return"

\* the statement after the callback: the buffer is released whatever it returned
after_callback(res) == "rs_ReleaseBuffer"

\* the frame count read_samples hands to ReleaseBuffer
release_frames(size) == size

\* the library's caller, or main's loop body `for i in 0..200`
read_samples ==
    /\ IF build = "lib" THEN pc = "idle" ELSE pc = "main_loop" /\ i < MaxPolls
    /\ pc' = "rs_GetNextPacketSize"
    /\ packet_length' = 0 /\ buffer' = 0 /\ buffer_size' = 0 /\ flags' = 0
    /\ info' = NoInfo /\ r' = Ok
    /\ result' = NoResult
    /\ trace' = <<>>
    /\ i' = IF build = "bin" THEN i + 1 ELSE i
    /\ forget_init
    /\ UNCHANGED <<build, inst, self, acquired, released, device, fmt>>

\* GetNextPacketSize (before the loop and at the end of its body) and the
\* loop test that follows it
rs_GetNextPacketSize ==
    /\ pc = "rs_GetNextPacketSize"
    /\ \E hr \in CallResults :
         LET res == winapi_result(hr)
             len == IF queue = <<>> THEN 0 ELSE Head(queue).frames
         IN  IF res.tag = "Ok"
             THEN /\ trace' = Append(trace,
                       [Call("GetNextPacketSize", "capture_client", hr) EXCEPT !.n = len])
                  /\ IF loop_cond(len)
                     THEN /\ pc' = "rs_GetBuffer"
                          /\ packet_length' = len
                          /\ UNCHANGED <<buffer, buffer_size, flags, info, r, result>>
                     ELSE rs_return(Ok)
             ELSE /\ trace' = Append(trace,
                                     Call("GetNextPacketSize", "capture_client", hr))
                  /\ rs_return(res)
    /\ UNCHANGED <<build, inst, init_state, self, acquired, released, device, fmt, i>>

\* GetBuffer hands out the oldest packet: its frame count and its flags
rs_GetBuffer ==
    /\ pc = "rs_GetBuffer"
    /\ \E hr \in (IF queue = <<>> THEN {E_FAIL} ELSE CallResults),
          fl \in PacketFlags :
         LET res == winapi_result(hr)
         IN  IF res.tag = "Ok"
             THEN /\ buffer' = Head(queue).id
                  /\ buffer_size' = Head(queue).frames
                  /\ flags' = fl
                  /\ info' = Info(fl)
                  /\ trace' = Append(trace,
                       [Call("GetBuffer", "capture_client", hr) EXCEPT
                           !.pkt = Head(queue).id, !.n = Head(queue).frames])
                  /\ pc' = "rs_callback"
                  /\ UNCHANGED <<packet_length, r, result>>
             ELSE /\ trace' = Append(trace, Call("GetBuffer", "capture_client", hr))
                  /\ rs_return(res)
    /\ UNCHANGED <<build, inst, init_state, self, acquired, released, device, fmt, i>>

\* `let r = f(data, info).map_err(ReadSamplesError::E)`
rs_callback ==
    /\ pc = "rs_callback"
    /\ \E res \in callback_results :
         /\ trace' = Append(trace,
              [op |-> "callback", kind |-> "f", hr |-> res.code, pkt |-> buffer,
               n |-> buffer_size * self.channels])
         /\ IF after_callback(res) = "rs_ReleaseBuffer"
            THEN /\ pc' = "rs_ReleaseBuffer"
                 /\ r' = res
                 /\ UNCHANGED <<packet_length, buffer, buffer_size, flags, info, result>>
            ELSE rs_return(res)
    /\ UNCHANGED <<build, inst, init_state, self, acquired, released, device, fmt, i>>

\* ReleaseBuffer(buffer_size)?, then `r?`
rs_ReleaseBuffer ==
    /\ pc = "rs_ReleaseBuffer"
    /\ \E hr \in CallResults :
         LET res == winapi_result(hr)
             n == release_frames(buffer_size)
         IN  /\ trace' = Append(trace,
                   [Call("ReleaseBuffer", "capture_client", hr) EXCEPT
                       !.pkt = buffer, !.n = n])
             /\ IF res.tag = "Ok"
                THEN /\ queue' = IF queue # <<>> /\ n = Head(queue).frames
                                 THEN Tail(queue) ELSE queue
                     /\ IF r.tag = "Ok"
                        THEN /\ pc' = "rs_GetNextPacketSize"
                             /\ UNCHANGED <<rs_locals, result>>
                        ELSE rs_return(r)
                ELSE /\ UNCHANGED queue
                     /\ rs_return(res)
    /\ UNCHANGED <<build, inst, init_state, self, acquired, released, running,
                   produced, fmt, i>>

(***************************************************************************)
(* Drop for AudioCapture                                                   *)
(***************************************************************************)
drop_handles_reverse_order ==
    << [op |-> "Release", kind |-> "capture_client"],
       [op |-> "CoTaskMemFree", kind |-> "wave_format"],
       [op |-> "Release", kind |-> "client"],
       [op |-> "Release", kind |-> "device"],
       [op |-> "Release", kind |-> "enumerator"] >>

\* the release calls of drop, in the order the code makes them
drop_handles ==
    << [op |-> "CoTaskMemFree", kind |-> "wave_format"],
       [op |-> "Release", kind |-> "capture_client"],
       [op |-> "Release", kind |-> "client"],
       [op |-> "Release", kind |-> "device"],
       [op |-> "Release", kind |-> "enumerator"] >>

couninitialize_always(s) == TRUE

\* whether drop calls CoUninitialize: capture.rs on its flag, main.rs always
couninitialize_on_drop(s) ==
    IF build = "lib" THEN s.should_run_couninitalize_on_drop ELSE TRUE

drop_calls(s) ==
    drop_handles \o
    (IF couninitialize_on_drop(s)
     THEN << [op |-> "CoUninitialize", kind |-> "com"] >> ELSE << >>)

\* the instance goes out of scope: in the library's caller, at the end of
\* main, or while a panic unwinds main
drop ==
    /\ IF build = "lib" THEN pc = "idle" ELSE pc \in {"main_end", "main_panic"}
    /\ LET calls == drop_calls(self)
       IN  /\ trace' = [k \in 1..Len(calls) |-> Call(calls[k].op, calls[k].kind, S_OK)]
           /\ released' = [kd \in Kinds |->
                  released[kd] + Cardinality({k \in 1..Len(calls) : calls[k].kind = kd})]
    /\ result' = Res("drop", Ok)
    /\ pc' = IF build = "lib" THEN "no_instance"
             ELSE IF pc = "main_end" THEN "done" ELSE "panicked"
    /\ self' = NullSelf
    /\ running' = FALSE
    /\ forget_init
    /\ UNCHANGED <<build, inst, acquired, queue, produced, rs_locals, fmt, i>>

\* a panic of main in a build that aborts instead of unwinding: nothing is dropped
main_abort ==
    /\ build = "bin" /\ pc = "main_panic"
    /\ pc' = "panicked"
    /\ UNCHANGED <<build, inst, init_state, self, acquired, released, device,
                   rs_locals, result, trace, fmt, i>>

Next ==
    \/ \E d \in DurInputs \cup {from_millis(100)} : init(d)
    \/ init_CoInitialize
    \/ init_CoCreateInstance
    \/ init_GetDefaultAudioEndpoint
    \/ init_Activate
    \/ init_Activate_again
    \/ init_GetMixFormat
    \/ init_dur
    \/ init_Initialize
    \/ init_GetBufferSize
    \/ init_GetService
    \/ call_format
    \/ main_format
    \/ main_check
    \/ start
    \/ stop
    \/ DeviceProduce
    \/ read_samples
    \/ rs_GetNextPacketSize
    \/ rs_GetBuffer
    \/ rs_callback
    \/ rs_ReleaseBuffer
    \/ drop
    \/ main_abort

Spec == Init /\ [][Next]_vars

(***************************************************************************)
(* format() over every descriptor: the specification starts from a live    *)
(* instance (the state a successful init leaves) whose mix-format          *)
(* descriptor is any of WaveFormats, and applies format().                 *)
(***************************************************************************)
FormatTags == {WAVE_FORMAT_PCM, 2, WAVE_FORMAT_IEEE_FLOAT, WAVE_FORMAT_EXTENSIBLE}
BitSizes == {8, 16, 24, 32}
StructSizes == {0, ExtensionSize, ExtensionSize + 2}
SubFormats == {"DATAFORMAT_SUBTYPE_PCM", "DATAFORMAT_SUBTYPE_IEEE_FLOAT", "other"}
ChannelCounts == {1, 2}
SampleRates == {44100, 48000}

WaveFormats ==
    { WaveFormat(1, t, b, c, g, ch, rate) :
        t \in FormatTags, b \in BitSizes, c \in StructSizes, g \in SubFormats,
        ch \in ChannelCounts, rate \in SampleRates }

\* the native calls of a successful init
init_calls(b, hr0) ==
    << Call("CoInitialize", "com", hr0),
       Call("CoCreateInstance", "enumerator", S_OK),
       Call("GetDefaultAudioEndpoint", "device", S_OK),
       Call("Activate", "client", S_OK) >>
    \o (IF b = "bin" THEN << Call("Activate", "client", S_OK) >> ELSE << >>)
    \o << Call("GetMixFormat", "wave_format", S_OK),
          Call("Initialize", "client", S_OK),
          Call("GetBufferSize", "client", S_OK),
          Call("GetService", "capture_client", S_OK) >>

\* the state in which a successful init(d) leaves the program
live_after_init(b, hr0, wf, d, size) ==
    /\ build = b
    /\ pc = IF b = "lib" THEN "idle" ELSE "main_format"
    /\ inst \in 1..MaxInstances
    /\ buffer_duration = d
    /\ dur \in IF b = "lib" THEN dur_lib(d) ELSE dur_bin(d)
    /\ dur.tag = "Some"
    /\ hnsBufferDuration = dur
    /\ CoInitialize_hr = Some(hr0)
    /\ self = [buffer_frame_size |-> size, wave_format |-> wf,
               channels |-> wf.nChannels, enumerator |-> 1, device |-> 1,
               client |-> IF b = "lib" THEN 1 ELSE 2, capture_client |-> 1,
               should_run_couninitalize_on_drop |-> (b = "lib" /\ hr0 = S_OK)]
    /\ acquired = [k \in Kinds |->
                     IF k = "com" THEN (IF hr0 = S_OK THEN 1 ELSE 0)
                     ELSE IF k = "client" /\ b = "bin" THEN 2 ELSE 1]
    /\ released = [k \in Kinds |-> 0]
    /\ running = FALSE /\ queue = <<>> /\ produced = 0
    /\ packet_length = 0 /\ buffer = 0 /\ buffer_size = 0 /\ flags = 0
    /\ info = NoInfo /\ r = Ok
    /\ result = Res("init", Ok)
    /\ trace = init_calls(b, hr0)
    /\ fmt = NoFormat
    /\ i = 0

FormatInit ==
    \E b \in {"lib", "bin"}, hr0 \in CoInitResults, wf \in WaveFormats :
        /\ b = "bin" => hr0 = S_OK
        /\ inst = 1
        /\ live_after_init(b, hr0, wf, from_millis(100), 4800)

FormatNext ==
    \/ call_format
    \/ main_format
    \/ main_check

SpecFormat == FormatInit /\ [][FormatNext]_vars

(***************************************************************************)
(* read_samples against a device that never stops: the packets of the      *)
(* endpoint buffer are not counted and the calls are not recorded, so that *)
(* a call may go on for ever.  The steps are those of read_samples above.  *)
(***************************************************************************)
\* the device queues a packet whenever the endpoint buffer has room
LiveDeviceProduce ==
    /\ running
    /\ Len(queue) < MaxQueue
    /\ \E f \in PacketFrames : queue' = Append(queue, [id |-> 0, frames |-> f])
    /\ UNCHANGED <<build, pc, inst, init_state, self, acquired, released, running,
                   produced, rs_locals, result, trace, fmt, i>>

live_GetNextPacketSize ==
    /\ pc = "rs_GetNextPacketSize"
    /\ \E hr \in CallResults :
         LET res == winapi_result(hr)
             len == IF queue = <<>> THEN 0 ELSE Head(queue).frames
         IN  IF res.tag = "Ok"
             THEN IF loop_cond(len)
                  THEN /\ pc' = "rs_GetBuffer"
                       /\ packet_length' = len
                       /\ UNCHANGED <<buffer, buffer_size, flags, info, r, result>>
                  ELSE rs_return(Ok)
             ELSE rs_return(res)
    /\ UNCHANGED <<build, inst, init_state, self, acquired, released, device,
                   trace, fmt, i>>

live_GetBuffer ==
    /\ pc = "rs_GetBuffer"
    /\ \E hr \in (IF queue = <<>> THEN {E_FAIL} ELSE CallResults),
          fl \in PacketFlags :
         LET res == winapi_result(hr)
         IN  IF res.tag = "Ok"
             THEN /\ buffer' = Head(queue).id
                  /\ buffer_size' = Head(queue).frames
                  /\ flags' = fl
                  /\ info' = Info(fl)
                  /\ pc' = "rs_callback"
                  /\ UNCHANGED <<packet_length, r, result>>
             ELSE rs_return(res)
    /\ UNCHANGED <<build, inst, init_state, self, acquired, released, device,
                   trace, fmt, i>>

live_callback ==
    /\ pc = "rs_callback"
    /\ \E res \in callback_results :
         IF after_callback(res) = "rs_ReleaseBuffer"
         THEN /\ pc' = "rs_ReleaseBuffer"
              /\ r' = res
              /\ UNCHANGED <<packet_length, buffer, buffer_size, flags, info, result>>
         ELSE rs_return(res)
    /\ UNCHANGED <<build, inst, init_state, self, acquired, released, device,
                   trace, fmt, i>>

live_ReleaseBuffer ==
    /\ pc = "rs_ReleaseBuffer"
    /\ \E hr \in CallResults :
         LET res == winapi_result(hr)
             n == release_frames(buffer_size)
         IN  IF res.tag = "Ok"
             THEN /\ queue' = IF queue # <<>> /\ n = Head(queue).frames
                              THEN Tail(queue) ELSE queue
                  /\ IF r.tag = "Ok"
                     THEN /\ pc' = "rs_GetNextPacketSize"
                          /\ UNCHANGED <<rs_locals, result>>
                     ELSE rs_return(r)
             ELSE /\ UNCHANGED queue
                  /\ rs_return(res)
    /\ UNCHANGED <<build, inst, init_state, self, acquired, released, running,
                   produced, trace, fmt, i>>

\* an instance a successful init has left, on any of the mix formats
LiveInit ==
    \E b \in {"lib", "bin"}, wf \in MixFormats :
        /\ inst = 1
        /\ live_after_init(b, S_OK, wf, from_millis(100), 4800)

LiveNext ==
    \/ main_format
    \/ main_check
    \/ start
    \/ stop
    \/ read_samples
    \/ LiveDeviceProduce
    \/ live_GetNextPacketSize
    \/ live_GetBuffer
    \/ live_callback
    \/ live_ReleaseBuffer

\* every native call and every callback invocation of read_samples returns;
\* nothing is assumed of the device
LiveFairness ==
    /\ WF_vars(live_GetNextPacketSize)
    /\ WF_vars(live_GetBuffer)
    /\ WF_vars(live_callback)
    /\ WF_vars(live_ReleaseBuffer)

SpecLive == LiveInit /\ [][LiveNext]_vars /\ LiveFairness

\* every state a successful init leaves in Spec has the shape FormatInit assumes
InitLeavesLiveInstance ==
    (result = Res("init", Ok)) =>
        live_after_init(build, CoInitialize_hr.v, self.wave_format, buffer_duration,
                        self.buffer_frame_size)

(***************************************************************************)
(* Properties.                                                             *)
(***************************************************************************)
InitOps == {"CoInitialize", "CoCreateInstance", "GetDefaultAudioEndpoint",
            "Activate", "GetMixFormat", "Initialize", "GetBufferSize", "GetService"}

Last(seq) == seq[Len(seq)]
IsCallback(e) == e.op = "callback"
Callbacks == SelectSeq(trace, IsCallback)
KindsOf(seq) == [k \in 1..Len(seq) |-> seq[k].kind]

\* init has ended, and not with Ok(Self)
InitFailed == result.op = "init" /\ result.tag # "Ok"

\* C1: when init has ended in failure at some step of the acquisition chain,
\* every resource it acquired before that step has been released again:
\* acquisitions and releases balance for every kind of native resource, the
\* environment-level initialization included.
C1_InitFailureReleasesAll ==
    InitFailed => \A k \in Kinds : acquired[k] = released[k]

\* C2: in read_samples every buffer obtained with GetBuffer is handed to the
\* callback and then released with the same frame count, before anything
\* else is called and before read_samples returns, also when the callback
\* fails; a callback error is returned only after the release call.
C2_BufferReleasedAfterCallback ==
    /\ \A k \in 1..Len(trace) :
         (trace[k].op = "GetBuffer" /\ trace[k].hr = S_OK) =>
            /\ Len(trace) >= k + 1 =>
                  trace[k + 1].op = "callback" /\ trace[k + 1].pkt = trace[k].pkt
            /\ Len(trace) >= k + 2 =>
                  /\ trace[k + 2].op = "ReleaseBuffer"
                  /\ trace[k + 2].pkt = trace[k].pkt
                  /\ trace[k + 2].n = trace[k].n
            /\ result.op = "read_samples" => Len(trace) >= k + 2
    /\ (result.op = "read_samples" /\ result.tag = "E") =>
         /\ Len(trace) >= 2
         /\ Last(trace).op = "ReleaseBuffer"
         /\ trace[Len(trace) - 1].op = "callback"
         /\ trace[Len(trace) - 1].hr = result.code

\* a callback error came back from read_samples, after the release
C2_Witness ==
    /\ result.op = "read_samples" /\ result.tag = "E"
    /\ Last(trace).op = "ReleaseBuffer" /\ Last(trace).hr = S_OK

\* C3: whenever the callback returned an error during read_samples,
\* read_samples returns that error (ReadSamplesError::E), whatever the native
\* calls after the callback return.
C3_CallbackErrorReturned ==
    result.op = "read_samples" =>
        \A k \in 1..Len(trace) :
            (trace[k].op = "callback" /\ trace[k].hr # 0) =>
                result.tag = "E" /\ result.code = trace[k].hr

C5_UninitIffInitOk ==
    /\ result.op = "drop" =>
         /\ (\E k \in 1..Len(trace) : trace[k].op = "CoUninitialize")
                <=> CoInitialize_hr = Some(S_OK)
         /\ released["com"] = IF CoInitialize_hr = Some(S_OK) THEN 1 ELSE 0
    /\ result.op # "drop" => released["com"] = 0

\* a second instance, whose CoInitialize found the environment initialized
\* already, was dropped without tearing it down
C5_Witness ==
    /\ result.op = "drop" /\ inst = 2
    /\ CoInitialize_hr = Some(S_FALSE)
    /\ released["com"] = 0
    /\ released["enumerator"] = 1

\* C6: a read_samples call in which nothing fails returns Ok only after a
\* next-packet-size query that answered zero; until then it has invoked the
\* callback exactly once for each packet the device gave up, in queue order
\* (consecutive packet ids, ending with the last packet the device popped),
\* and not at all when the first query answered zero.
C6_DrainsAll ==
    (result.op = "read_samples" /\ result.tag = "Ok") =>
        /\ Last(trace).op = "GetNextPacketSize"
        /\ Last(trace).hr = S_OK
        /\ Last(trace).n = 0
        /\ \A k \in 1..(Len(trace) - 1) :
             trace[k].op = "GetNextPacketSize" =>
                /\ trace[k].n > 0
                /\ trace[k + 1].op = "GetBuffer"
                /\ trace[k + 2].op = "callback"
                /\ trace[k + 2].n = trace[k].n * self.channels
        /\ Len(trace) = 1 + 4 * Len(Callbacks)
        /\ \A k \in 1..(Len(Callbacks) - 1) :
             Callbacks[k + 1].pkt = Callbacks[k].pkt + 1
        /\ Callbacks # << >> => Last(Callbacks).pkt = produced - Len(queue)
        /\ trace[1].n = 0 => Callbacks = << >>

\* a call drained two packets
C6_Witness ==
    /\ result.op = "read_samples" /\ result.tag = "Ok"
    /\ Len(Callbacks) = 2
    /\ Callbacks[1].pkt = 1 /\ Callbacks[2].pkt = 2

\* C7: format() copies channels and sample rate from the descriptor and maps
\* (PCM, 8) to Int8, (PCM, 16) to Int16, (IEEE float, 32) to Float32, and the
\* extensible tag with a trailing size of exactly ExtensionSize to the same
\* three by sub-format and bits per sample; everything else is UnknownFormat.
C7_FormatMapping ==
    result.op = "format" =>
        LET wf == self.wave_format
            tag == wf.wFormatTag
            bits == wf.wBitsPerSample
            ext == tag = WAVE_FORMAT_EXTENSIBLE /\ wf.cbSize = ExtensionSize
            pcm == \/ tag = WAVE_FORMAT_PCM
                   \/ ext /\ wf.SubFormat = "DATAFORMAT_SUBTYPE_PCM"
            float == \/ tag = WAVE_FORMAT_IEEE_FLOAT
                     \/ ext /\ wf.SubFormat = "DATAFORMAT_SUBTYPE_IEEE_FLOAT"
            as(sf) == fmt = [tag |-> "Ok", channels |-> wf.nChannels,
                             sample_rate |-> wf.nSamplesPerSec, sample_format |-> sf]
        IN  /\ (pcm /\ bits = 8) => as("Int8")
            /\ (pcm /\ bits = 16) => as("Int16")
            /\ (float /\ bits = 32) => as("Float32")
            /\ ~(\/ pcm /\ bits \in {8, 16}
                 \/ float /\ bits = 32) => fmt = [tag |-> "UnknownFormat"]

\* format() resolved an extensible descriptor through its sub-format
C7_Witness ==
    /\ result.op = "format"
    /\ self.wave_format.wFormatTag = WAVE_FORMAT_EXTENSIBLE
    /\ self.wave_format.SubFormat = "DATAFORMAT_SUBTYPE_PCM"
    /\ self.wave_format.nChannels = 1
    /\ fmt.tag = "Ok" /\ fmt.sample_format = "Int16" /\ fmt.channels = 1

\* C8: every native call of init is checked: a call that does not return
\* S_OK is the last call init makes, init ends there and returns
\* Err(WinError) with that status code; init never panics.
C8_InitFailureIsTypedError ==
    /\ result.op = "init" => result.tag \in {"Ok", "WinError"}
    /\ \A k \in 1..Len(trace) :
         (trace[k].op \in InitOps /\ trace[k].hr # S_OK) =>
            /\ k = Len(trace)
            /\ result = [op |-> "init", tag |-> "WinError", code |-> trace[k].hr]

\* the value of the formula of init, computed without any width:
\* seconds * 100_000_000_000 + subsec_nanos * 100
ExactTicks(d) == Signed(FALSE, AddD(ShiftD(d.secs, 11), ShiftD(NatD(d.nanos), 2)))

\* C9: the duration init passes to Initialize is the exact value of its
\* formula (or init aborted before the call): never a wrapped, truncated or
\* sign-changed one.
C9_DurationExact ==
    hnsBufferDuration.tag = "Some" =>
        hnsBufferDuration.v = ExactTicks(buffer_duration)

\* C10: in main, once format() has answered Int8 or Int16, capture never
\* starts: start() is not called, no read_samples poll is made, and the
\* program is at the format check or panicking.
C10_NonFloatAborts ==
    (build = "bin" /\ fmt.tag = "Ok" /\ fmt.sample_format \in {"Int8", "Int16"}) =>
        /\ pc \in {"main_check", "main_panic", "panicked"}
        /\ result.op \in {"format", "drop"}
        /\ ~running
        /\ i = 0

\* main panicked on an Int16 mix format
C10_Witness ==
    /\ build = "bin" /\ fmt.tag = "Ok" /\ fmt.sample_format = "Int16"
    /\ pc = "panicked"

\* C11: the Info read_samples hands to the callback has is_silent,
\* data_discontinuity and timestamp_error true exactly when the SILENT (2),
\* DATA_DISCONTINUITY (1) and TIMESTAMP_ERROR (4) bit of the flags GetBuffer
\* reported is set, each independently of the other two; and whatever the
\* flags, the packet just obtained is the one the callback is invoked with,
\* all of its samples included.
C11_InfoMirrorsFlags ==
    /\ pc \in {"rs_callback", "rs_ReleaseBuffer"} =>
         /\ info.is_silent <=> flags \in {2, 3, 6, 7}
         /\ info.data_discontinuity <=> flags \in {1, 3, 5, 7}
         /\ info.timestamp_error <=> flags \in {4, 5, 6, 7}
         /\ Last(trace).op = (IF pc = "rs_callback" THEN "GetBuffer" ELSE "callback")
         /\ Last(trace).pkt = buffer
    /\ pc = "rs_ReleaseBuffer" =>
         /\ Last(trace).n = buffer_size * self.channels
         /\ trace[Len(trace) - 1].op = "GetBuffer"
         /\ trace[Len(trace) - 1].pkt = buffer
         /\ trace[Len(trace) - 1].n = buffer_size

\* the callback was invoked with a packet flagged silent and timestamp-error
\* but not discontinuous
C11_Witness ==
    /\ pc = "rs_ReleaseBuffer"
    /\ flags = 6
    /\ info = [is_silent |-> TRUE, data_discontinuity |-> FALSE,
               timestamp_error |-> TRUE]
    /\ Last(trace).op = "callback" /\ Last(trace).n = 2 * self.channels

\* read_samples is running
InReadSamples ==
    pc \in {"rs_GetNextPacketSize", "rs_GetBuffer", "rs_callback", "rs_ReleaseBuffer"}

\* C12: every call of read_samples eventually returns, Ok or Err, when each
\* native call and each callback invocation returns, whatever the device
\* does while the call is in progress.
C12_ReadSamplesReturns ==
    InReadSamples ~> (result.op = "read_samples")

\* the native resources an instance holds through its fields
Handles == {"enumerator", "device", "client", "wave_format", "capture_client"}

\* C13: over a successful init followed by drop of an instance, each of
\* enumerator, device, audio client, mix-format descriptor and capture client
\* is acquired exactly once and released exactly once: at no time does the
\* instance hold two acquisitions of one resource or has it released more
\* than it acquired, and after drop each count is one.
C13_AcquiredOnceReleasedOnce ==
    \A k \in Handles :
        /\ acquired[k] - released[k] \in {0, 1}
        /\ result.op = "drop" => acquired[k] = 1 /\ released[k] = 1

\* buffer_duration in 100-nanosecond ticks:
\* (seconds * 10^9 + subsec_nanos) / 100 = seconds * 10^7 + subsec_nanos / 100
Ticks(d) == Signed(FALSE, AddD(ShiftD(d.secs, 7), NatD(d.nanos \div 100)))

\* the computation of init does not overflow for d: the seconds are an i64
\* and so is the value of the formula
NoOverflow(d) == LtD(d.secs, TwoPow63) /\ InI64(ExactTicks(d))

\* C14: for every buffer_duration whose computation does not overflow, the
\* duration init passes to Initialize is buffer_duration in 100-nanosecond
\* ticks (100 ms gives 1 000 000).
C14_DurationInTicks ==
    (hnsBufferDuration.tag = "Some" /\ NoOverflow(buffer_duration)) =>
        hnsBufferDuration.v = Ticks(buffer_duration)

\* the native calls of start, stop and read_samples
StreamOps == {"Start", "Stop", "GetNextPacketSize", "GetBuffer", "ReleaseBuffer"}

\* the operation that makes the native call op
OperationOf(op) ==
    IF op = "Start" THEN "start" ELSE IF op = "Stop" THEN "stop" ELSE "read_samples"

\* C15: in start, stop and read_samples a native call that does not return
\* S_OK is the last thing the operation does: no native call and no callback
\* follows it (no retry), and the operation has returned the native error
\* carrying that call's status code.  start and stop make exactly one native
\* call each, and a native error read_samples returns is that of its last
\* call.
C15_StreamFailureIsFatal ==
    /\ \A k \in 1..Len(trace) :
         (trace[k].op \in StreamOps /\ trace[k].hr # S_OK) =>
            /\ k = Len(trace)
            /\ result = [op |-> OperationOf(trace[k].op), tag |-> "WinError",
                         code |-> trace[k].hr]
    /\ result.op = "start" => Len(trace) = 1 /\ trace[1].op = "Start"
    /\ result.op = "stop" => Len(trace) = 1 /\ trace[1].op = "Stop"
    /\ (result.op = "read_samples" /\ result.tag = "WinError") =>
         /\ Last(trace).op \in StreamOps
         /\ Last(trace).hr = result.code
         /\ result.code # S_OK

\* GetBuffer failed on the second packet of a call: read_samples returned its
\* error, without a callback or a release for that packet
C15_Witness ==
    /\ result = [op |-> "read_samples", tag |-> "WinError", code |-> E_FAIL]
    /\ Len(trace) = 6
    /\ trace[5].op = "GetNextPacketSize" /\ trace[5].n > 0
    /\ trace[6].op = "GetBuffer" /\ trace[6].hr = E_FAIL

=============================================================================
